---------------------------- MODULE Spec2Model ----------------------------
(***************************************************************************)
(* A state-machine model of the CloudFront access-log billing scanner      *)
(* (billing_scanner/scanner.py, state.py, s3_utils.py, subnettree.py).     *)
(*                                                                         *)
(* A run of BillingScanner is a process p \in Procs.  Its steps follow     *)
(* BillingScanner.__init__, BillingScanner.run, ScannerState.__enter__ /   *)
(* __exit__ and BillingScanner.process_log_file.  The S3 bucket, the       *)
(* producer, the range document and the state file on disk are the         *)
(* environment.  Strings are TLA+ strings, handled with Len, SubSeq, \o.   *)
(* SpecCalls has the behaviours of one direct call of classify,            *)
(* process_log_line or process_log_file, as the unit tests make them.      *)
(***************************************************************************)
EXTENDS Integers, Sequences, FiniteSets, TLC

(***************************************************************************)
(* Bounds of the model.                                                    *)
(***************************************************************************)
\* number of scheduler-triggered runs in a behaviour
MaxRuns == 2
\* number of runs of a behaviour of SpecOverlap (runs that may overlap)
MaxOverlapRuns == 2

\* number of lines of a log file handed to process_log_file directly
MaxLines == 3

Procs == 1..MaxRuns

(***************************************************************************)
(* String helpers: the Python str methods the scanner uses.                *)
(***************************************************************************)
Char(s, i) == SubSeq(s, i, i)

\* a test for the prefix followed by a space
startswith_word(s, p) == Len(s) > Len(p) /\ SubSeq(s, 1, Len(p) + 1) = p \o " "

\* str.startswith
startswith(s, p) == Len(s) >= Len(p) /\ SubSeq(s, 1, Len(p)) = p

\* p in s: the substring test
contains(s, p) == \E i \in 1..(Len(s) - Len(p) + 1) : SubSeq(s, i, i + Len(p) - 1) = p

\* str.endswith
endswith(s, p) == Len(s) >= Len(p) /\ SubSeq(s, Len(s) - Len(p) + 1, Len(s)) = p

RECURSIVE SplitFrom(_, _, _)
\* the pieces of s from position start on, cut at each sep
SplitFrom(s, sep, start) ==
    LET seps == {i \in start..Len(s) : Char(s, i) = sep}
    IN  IF seps = {} THEN <<SubSeq(s, start, Len(s))>>
        ELSE LET j == CHOOSE i \in seps : \A k \in seps : i <= k
             IN  <<SubSeq(s, start, j - 1)>> \o SplitFrom(s, sep, j + 1)

\* str.split(sep) for a one-character separator
split(s, sep) == SplitFrom(s, sep, 1)

\* str.splitlines() for "\n" line ends: no empty last line after a final "\n"
splitlines(s) ==
    LET parts == split(s, "\n")
    IN  IF parts[Len(parts)] = "" THEN SubSeq(parts, 1, Len(parts) - 1) ELSE parts

Whitespace == {" ", "\t", "\n", "\r"}

\* not s.strip(): s holds whitespace only
IsBlank(s) == \A i \in 1..Len(s) : Char(s, i) \in Whitespace

RECURSIVE RemoveChar(_, _)
\* str.replace(c, "") for a one-character c
RemoveChar(s, c) ==
    IF s = "" THEN ""
    ELSE IF Head(s) = c THEN RemoveChar(Tail(s), c)
    ELSE Head(s) \o RemoveChar(Tail(s), c)

DigitChars == <<"0", "1", "2", "3", "4", "5", "6", "7", "8", "9">>

IsDigit(c) == \E d \in 1..10 : DigitChars[d] = c

DigitVal(c) == (CHOOSE d \in 1..10 : DigitChars[d] = c) - 1

AllDigits(s) == s # "" /\ \A i \in 1..Len(s) : IsDigit(Char(s, i))

RECURSIVE NatOf(_)
NatOf(s) == IF s = "" THEN 0 ELSE NatOf(SubSeq(s, 1, Len(s) - 1)) * 10 + DigitVal(Char(s, Len(s)))

\* int(s) raises ValueError unless s is an optionally signed run of digits
\* (surrounding whitespace and "_" digit separators are left out of the model)
IntOk(s) ==
    \/ AllDigits(s)
    \/ Len(s) > 1 /\ Char(s, 1) \in {"+", "-"} /\ AllDigits(Tail(s))

\* int(s), where IntOk(s)
int(s) ==
    IF Char(s, 1) = "-" THEN 0 - NatOf(Tail(s))
    ELSE IF Char(s, 1) = "+" THEN NatOf(Tail(s))
    ELSE NatOf(s)


(***************************************************************************)
(* Timestamps: datetime.fromisoformat and datetime.isoformat.  An instant  *)
(* is <<year, month, day, hour, minute, second>>; instants compare         *)
(* lexicographically, as naive datetimes do.  The model accepts the        *)
(* 19-character form YYYY-MM-DDTHH:MM:SS only; every other string is a     *)
(* ValueError.                                                             *)
(***************************************************************************)
DaysIn(y, m) ==
    IF m \in {4, 6, 9, 11} THEN 30
    ELSE IF m # 2 THEN 31
    ELSE IF (y % 4 = 0 /\ y % 100 # 0) \/ y % 400 = 0 THEN 29
    ELSE 28

IsoShape(s) ==
    /\ Len(s) = 19
    /\ AllDigits(SubSeq(s, 1, 4)) /\ Char(s, 5) = "-"
    /\ AllDigits(SubSeq(s, 6, 7)) /\ Char(s, 8) = "-"
    /\ AllDigits(SubSeq(s, 9, 10)) /\ Char(s, 11) = "T"
    /\ AllDigits(SubSeq(s, 12, 13)) /\ Char(s, 14) = ":"
    /\ AllDigits(SubSeq(s, 15, 16)) /\ Char(s, 17) = ":"
    /\ AllDigits(SubSeq(s, 18, 19))

IsoFields(s) ==
    << NatOf(SubSeq(s, 1, 4)), NatOf(SubSeq(s, 6, 7)), NatOf(SubSeq(s, 9, 10)),
       NatOf(SubSeq(s, 12, 13)), NatOf(SubSeq(s, 15, 16)), NatOf(SubSeq(s, 18, 19)) >>

\* datetime.fromisoformat(s) returns (TRUE) or raises ValueError (FALSE)
IsoOk(s) ==
    /\ IsoShape(s)
    /\ LET f == IsoFields(s)
       IN  /\ f[1] >= 1
           /\ f[2] \in 1..12
           /\ f[3] \in 1..DaysIn(f[1], f[2])
           /\ f[4] \in 0..23
           /\ f[5] \in 0..59
           /\ f[6] \in 0..59

\* datetime.fromisoformat(s), where IsoOk(s)
fromisoformat(s) == IsoFields(s)

\* a < b for two naive datetimes
Before(a, b) == \E i \in 1..6 : a[i] < b[i] /\ \A j \in 1..(i - 1) : a[j] = b[j]

RECURSIVE Pad(_, _)
\* n in decimal, zero-padded to w digits
Pad(n, w) == IF w = 0 THEN "" ELSE Pad(n \div 10, w - 1) \o DigitChars[(n % 10) + 1]

\* datetime.isoformat() of an instant with no microseconds
isoformat(d) ==
    Pad(d[1], 4) \o "-" \o Pad(d[2], 2) \o "-" \o Pad(d[3], 2) \o "T"
        \o Pad(d[4], 2) \o ":" \o Pad(d[5], 2) \o ":" \o Pad(d[6], 2)

(***************************************************************************)
(* AWSIPClassifier (subnettree.py).  A tree is the set of the prefixes     *)
(* put in it, each <<bits, length>> over 128-bit keys: an IPv6 address is  *)
(* its 128 bits, an IPv4 address a.b.c.d the key of ::ffff:a.b.c.d, which  *)
(* is how SubnetTree stores both families in one tree.  Membership is a    *)
(* prefix match.  The model parses dotted-quad IPv4 addresses and IPv6     *)
(* addresses written as hexadecimal groups with at most one "::".          *)
(***************************************************************************)
EgressSKU == [REGION |-> "EGRESS-REGION", INTERREGION |-> "EGRESS-INTERREGION",
              INTERNET |-> "EGRESS-INTERNET"]

OctetOk(s) ==
    /\ AllDigits(s) /\ Len(s) <= 3
    /\ (Len(s) > 1 => Char(s, 1) # "0")
    /\ NatOf(s) <= 255

RECURSIVE BitsOf(_, _)
\* the w low bits of n, most significant first
BitsOf(n, w) == IF w = 0 THEN <<>> ELSE BitsOf(n \div 2, w - 1) \o <<n % 2>>

\* inet_pton(AF_INET, s) succeeds
AddrOk(s) ==
    LET parts == split(s, ".")
    IN  Len(parts) = 4 /\ \A i \in 1..4 : OctetOk(parts[i])

\* the 32 bits of the address s, where AddrOk(s)
AddrBits(s) ==
    LET parts == split(s, ".")
    IN  BitsOf(NatOf(parts[1]), 8) \o BitsOf(NatOf(parts[2]), 8)
            \o BitsOf(NatOf(parts[3]), 8) \o BitsOf(NatOf(parts[4]), 8)

HexChars == "0123456789abcdef"

UpperHexChars == "0123456789ABCDEF"

IsHex(c) == \E d \in 1..16 : Char(HexChars, d) = c \/ Char(UpperHexChars, d) = c

HexVal(c) == (CHOOSE d \in 1..16 : Char(HexChars, d) = c \/ Char(UpperHexChars, d) = c) - 1

\* one group of an IPv6 address: one to four hexadecimal digits
GroupOk(s) == Len(s) \in 1..4 /\ \A i \in 1..Len(s) : IsHex(Char(s, i))

RECURSIVE GroupVal(_)
GroupVal(s) ==
    IF s = "" THEN 0 ELSE GroupVal(SubSeq(s, 1, Len(s) - 1)) * 16 + HexVal(Char(s, Len(s)))

\* the positions of s where "::" starts
Gaps(s) == {i \in 1..(Len(s) - 1) : SubSeq(s, i, i + 1) = "::"}

\* the groups written in s, a side of "::" or a whole address
GroupsIn(s) == IF s = "" THEN <<>> ELSE split(s, ":")

\* the eight groups of the IPv6 address s, <<>> when s is no such address
Addr6Groups(s) ==
    IF Gaps(s) = {}
    THEN IF Len(GroupsIn(s)) = 8 THEN GroupsIn(s) ELSE <<>>
    ELSE IF Cardinality(Gaps(s)) # 1 THEN <<>>
    ELSE LET i     == CHOOSE j \in Gaps(s) : TRUE
             left  == GroupsIn(SubSeq(s, 1, i - 1))
             right == GroupsIn(SubSeq(s, i + 2, Len(s)))
         IN  IF Len(left) + Len(right) > 7 THEN <<>>
             ELSE left \o [n \in 1..(8 - Len(left) - Len(right)) |-> "0"] \o right

\* inet_pton(AF_INET6, s) succeeds
Addr6Ok(s) ==
    LET g == Addr6Groups(s)
    IN  Len(g) = 8 /\ \A i \in 1..8 : GroupOk(g[i])

RECURSIVE GroupBits(_, _)
\* the bits of the groups 1..n of g
GroupBits(g, n) ==
    IF n = 0 THEN <<>> ELSE GroupBits(g, n - 1) \o BitsOf(GroupVal(g[n]), 16)

\* the 96 bits of ::ffff:0:0/96
V4Mapped == [i \in 1..96 |-> IF i > 80 THEN 1 ELSE 0]

\* s parses as an address of one of the two families
KeyOk(s) == AddrOk(s) \/ Addr6Ok(s)

\* the 128-bit key of the address s, where KeyOk(s)
KeyBits(s) == IF AddrOk(s) THEN V4Mapped \o AddrBits(s) ELSE GroupBits(Addr6Groups(s), 8)

\* "addr/n" or "addr" parses as a prefix
CidrOk(s) ==
    LET parts == split(s, "/")
    IN  \/ Len(parts) = 1 /\ KeyOk(parts[1])
        \/ Len(parts) = 2 /\ KeyOk(parts[1]) /\ AllDigits(parts[2])
                          /\ NatOf(parts[2]) <= (IF AddrOk(parts[1]) THEN 32 ELSE 128)

\* the prefix <<bits, length>> of the CIDR string s, where CidrOk(s)
Cidr(s) ==
    LET parts == split(s, "/")
        width == IF AddrOk(parts[1]) THEN 32 ELSE 128
        n     == (IF Len(parts) = 2 THEN NatOf(parts[2]) ELSE width) + (128 - width)
    IN  <<SubSeq(KeyBits(parts[1]), 1, n), n>>

\* dict.get(key, "") on a range-document entry: an absent or null field is falsy
get(entry, key) == IF key \in DOMAIN entry THEN entry[key] ELSE ""

\* client_ip in tree: a lookup of an address that does not parse finds nothing
InTree(client_ip, tree) ==
    /\ KeyOk(client_ip)
    /\ \E pfx \in tree : SubSeq(KeyBits(client_ip), 1, pfx[2]) = pfx[1]

\* AWSIPClassifier.build_trees: the trees after the entries 1..n of the document
RECURSIVE build_trees_to(_, _, _)
build_trees_to(ip_data, current_region, n) ==
    IF n = 0 THEN [current_tree |-> {}, aws_tree |-> {}]
    ELSE LET t      == build_trees_to(ip_data, current_region, n - 1)
             prefix == ip_data.prefixes[n]
             region == get(prefix, "region")
             cidr4  == get(prefix, "ip_prefix")
             cidr6  == get(prefix, "ipv6_prefix")
             new    == {Cidr(c) : c \in {cidr4, cidr6} \ {""}}
         IN  IF region = current_region
             THEN [t EXCEPT !.current_tree = @ \cup new]
             ELSE [t EXCEPT !.aws_tree = @ \cup new]

build_trees(ip_data, current_region) ==
    build_trees_to(ip_data, current_region, Len(ip_data.prefixes))

\* a classifier that consults the tree of the other regions first
classify_aws_first(trees, client_ip) ==
    IF InTree(client_ip, trees.aws_tree) THEN EgressSKU.INTERREGION
    ELSE IF InTree(client_ip, trees.current_tree) THEN EgressSKU.REGION
    ELSE EgressSKU.INTERNET

\* AWSIPClassifier.classify
classify(trees, client_ip) ==
    IF InTree(client_ip, trees.current_tree) THEN EgressSKU.REGION
    ELSE IF InTree(client_ip, trees.aws_tree) THEN EgressSKU.INTERREGION
    ELSE EgressSKU.INTERNET

(***************************************************************************)
(* BillingScanner.process_log_line and the aggregation of                  *)
(* BillingScanner.process_log_file (scanner.py).                           *)
(***************************************************************************)
\* uuid.uuid5(uuid.NAMESPACE_DNS, name): a fixed function of the name, taken
\* to be collision-free
uuid5(name) == "uuid5(" \o name \o ")"

expected_domain == "eodatahub-workspaces.org.uk"

\* fields[i] with Python's 0-based index
Field(fields, i) == fields[i + 1]

NoRecord == [ok |-> FALSE]

\* The body of the try block of process_log_line, which raises (IndexError,
\* ValueError) exactly when RaisesInLine holds.
RaisesInLine(fields) == Len(fields) < 7 \/ ~IntOk(Field(fields, 5))

\* aggregation key "<log_filename>-<workspace>-<sku>"
AggregationKey(log_filename, workspace, sku) ==
    log_filename \o "-" \o workspace \o "-" \o sku

process_log_line(trees, line, log_filename) ==
    IF IsBlank(line) \/ startswith(line, "#") THEN NoRecord
    ELSE LET fields == split(line, "\t")
         IN  IF RaisesInLine(fields) THEN NoRecord
             ELSE LET date          == Field(fields, 2)
                      time_str      == Field(fields, 3)
                      sc_bytes      == int(Field(fields, 5))
                      client_ip     == Field(fields, 6)
                      x_host_header == IF Len(fields) > 17 THEN Field(fields, 17) ELSE ""
                      parts         == split(x_host_header, ".")
                      workspace     == IF endswith(x_host_header, expected_domain)
                                       THEN parts[1] ELSE ""
                      sku           == classify(trees, client_ip)
                      aggregation_key == AggregationKey(log_filename, workspace, sku)
                  IN  IF workspace = "" THEN NoRecord
                      ELSE [ok              |-> TRUE,
                            uuid            |-> uuid5(aggregation_key),
                            workspace       |-> workspace,
                            sku             |-> sku,
                            data_size       |-> sc_bytes,
                            timestamp       |-> date \o "T" \o time_str \o "Z",
                            aggregation_key |-> aggregation_key]

\* an aggregation that finds no group of a key, and opens one per record
NoGroupIndex(aggregation, group_key) == 0

\* the index of the group with this key in the aggregation, 0 when it has none
GroupIndex(aggregation, group_key) ==
    IF \E i \in 1..Len(aggregation) : aggregation[i].key = group_key
    THEN CHOOSE i \in 1..Len(aggregation) : aggregation[i].key = group_key
    ELSE 0

\* a fold that assigns the record's data_size to the group instead of adding it
FoldRecordAssign(aggregation, event_data) ==
    LET ts == fromisoformat(RemoveChar(event_data.timestamp, "Z"))
        i  == GroupIndex(aggregation, event_data.aggregation_key)
    IN  IF i = 0
        THEN Append(aggregation,
                    [key       |-> event_data.aggregation_key,
                     data_size |-> event_data.data_size,
                     earliest  |-> ts,
                     latest    |-> ts,
                     workspace |-> event_data.workspace,
                     sku       |-> event_data.sku])
        ELSE [aggregation EXCEPT
                 ![i].data_size = event_data.data_size,
                 ![i].earliest  = IF Before(ts, @) THEN ts ELSE @,
                 ![i].latest    = IF Before(@, ts) THEN ts ELSE @]

\* a fold whose earliest is the instant of the record folded last
FoldRecordEarliestLast(aggregation, event_data) ==
    LET ts == fromisoformat(RemoveChar(event_data.timestamp, "Z"))
        i  == GroupIndex(aggregation, event_data.aggregation_key)
    IN  IF i = 0
        THEN Append(aggregation,
                    [key       |-> event_data.aggregation_key,
                     data_size |-> event_data.data_size,
                     earliest  |-> ts,
                     latest    |-> ts,
                     workspace |-> event_data.workspace,
                     sku       |-> event_data.sku])
        ELSE [aggregation EXCEPT
                 ![i].data_size = @ + event_data.data_size,
                 ![i].earliest  = ts,
                 ![i].latest    = IF Before(@, ts) THEN ts ELSE @]

\* One valid record folded into the aggregation (a dict in insertion order):
\* data_size is summed, earliest and latest take the record's instant when it
\* is before, respectively after, them.
FoldRecord(aggregation, event_data) ==
    LET ts == fromisoformat(RemoveChar(event_data.timestamp, "Z"))
        i  == GroupIndex(aggregation, event_data.aggregation_key)
    IN  IF i = 0
        THEN Append(aggregation,
                    [key       |-> event_data.aggregation_key,
                     data_size |-> event_data.data_size,
                     earliest  |-> ts,
                     latest    |-> ts,
                     workspace |-> event_data.workspace,
                     sku       |-> event_data.sku])
        ELSE [aggregation EXCEPT
                 ![i].data_size = @ + event_data.data_size,
                 ![i].earliest  = IF Before(ts, @) THEN ts ELSE @,
                 ![i].latest    = IF Before(@, ts) THEN ts ELSE @,
                 ![i].workspace = event_data.workspace,
                 ![i].sku       = event_data.sku]

\* The loop over content.splitlines() of process_log_file, up to line n:
\* [raised |-> TRUE] when datetime.fromisoformat raised on a record's
\* timestamp (no handler encloses it), the aggregation so far otherwise.
RECURSIVE AggregateTo(_, _, _, _)
AggregateTo(trees, lines, key, n) ==
    IF n = 0 THEN [raised |-> FALSE, aggregation |-> <<>>]
    ELSE LET before     == AggregateTo(trees, lines, key, n - 1)
             event_data == process_log_line(trees, lines[n], key)
         IN  IF before.raised \/ ~event_data.ok THEN before
             ELSE IF ~IsoOk(RemoveChar(event_data.timestamp, "Z"))
                  THEN [raised |-> TRUE, aggregation |-> before.aggregation]
                  ELSE [raised |-> FALSE,
                        aggregation |-> FoldRecord(before.aggregation, event_data)]

Aggregate(trees, content, key) ==
    AggregateTo(trees, splitlines(content), key, Len(splitlines(content)))

\* the BillingEvent process_log_file builds for one group
BillingEvent(group) ==
    [uuid        |-> uuid5(group.key),
     event_start |-> isoformat(group.earliest) \o "Z",
     event_end   |-> isoformat(group.latest) \o "Z",
     sku         |-> group.sku,
     workspace   |-> group.workspace,
     quantity    |-> group.data_size]

(***************************************************************************)
(* The environment: the bucket's log files, the range documents and the    *)
(* ordering of S3 keys.                                                    *)
(***************************************************************************)
\* the characters of keys in code-point order (Python's str order and S3's
\* listing order agree on them)
CodeOrder == "-./0123456789ABCDEFGHIJKLMNOPQRSTUVWXYZ_abcdefghijklmnopqrstuvwxyz"

Code(c) == CHOOSE i \in 1..Len(CodeOrder) : Char(CodeOrder, i) = c

RECURSIVE StrLess(_, _)
\* a < b for two strings
StrLess(a, b) ==
    IF b = "" THEN FALSE
    ELSE IF a = "" THEN TRUE
    ELSE IF Head(a) = Head(b) THEN StrLess(Tail(a), Tail(b))
    ELSE Code(Head(a)) < Code(Head(b))

\* max(keys) of a non-empty set of strings
max(keys) == CHOOSE k \in keys : \A j \in keys : j = k \/ StrLess(j, k)

RECURSIVE Sorted(_)
\* the keys of a set in listing (lexicographic) order
Sorted(keys) ==
    IF keys = {} THEN <<>>
    ELSE LET least == CHOOSE k \in keys : \A j \in keys : j = k \/ StrLess(k, j)
         IN  <<least>> \o Sorted(keys \ {least})

\* one access-log line with the 18 tab-separated fields of the log header
LogLine(date, time_str, sc_bytes, client_ip, x_host_header) ==
    "1744033128\tEYK26O46YS1D0\t" \o date \o "\t" \o time_str \o "\tLHR3-C2\t"
        \o sc_bytes \o "\t" \o client_ip
        \o "\tGET\tdummy.example.com\t/p\t200\t-\t-\t-\t-\tMiss\t-\t" \o x_host_header

Ws1Host == "workspace1.eodatahub-workspaces.org.uk"
Ws2Host == "workspace2.cluster.eodatahub-workspaces.org.uk"

\* two groups, among comment, blank, short, non-numeric and foreign-host lines
ContentTwoGroups ==
    "#Version: 1.0\n"
        \o LogLine("2025-04-07", "13:39:00", "200", "10.1.2.3", Ws1Host) \o "\n"
        \o "\n"
        \o "1744033128\tEYK26O46YS1D0\t2025-04-07\n"
        \o LogLine("2025-04-07", "13:38:48", "398", "10.1.2.3", Ws1Host) \o "\n"
        \o LogLine("2025-04-07", "13:40:00", "-", "10.1.2.3", Ws1Host) \o "\n"
        \o LogLine("2025-04-07", "13:41:00", "7", "10.1.2.3", "dummy.example.com") \o "\n"
        \o LogLine("2025-04-07", "13:42:00", "50", "8.8.8.8", Ws2Host) \o "\n"

\* one group, whose tier depends on the range document
ContentOneGroup ==
    LogLine("2025-04-08", "00:00:01", "10", "192.168.1.1", Ws1Host) \o "\n"

ContentEmpty == ""

\* a valid line, then a line whose date is no date
ContentBadDate ==
    LogLine("2025-04-09", "10:00:00", "5", "8.8.8.8", Ws1Host) \o "\n"
        \o LogLine("2025-13-09", "10:00:01", "6", "8.8.8.8", Ws1Host) \o "\n"

\* comment lines and a line of a foreign host: content, but no group
ContentNoGroups ==
    "#Version: 1.0\n#Fields: date time x-edge-location sc-bytes c-ip\n"
        \o LogLine("2025-04-07", "13:41:00", "7", "10.1.2.3", "dummy.example.com") \o "\n"

Contents == {ContentTwoGroups, ContentOneGroup, ContentEmpty, ContentBadDate,
             ContentNoGroups}

BucketKeys == {"l1.gz", "l2.gz", "l3.gz"}

\* the buckets of the model: the content of each log file
Buckets ==
    { ("l1.gz" :> c[1] @@ "l2.gz" :> c[2]) :
        c \in { <<ContentTwoGroups, ContentOneGroup>>, <<ContentOneGroup, ContentTwoGroups>>,
                <<ContentEmpty, ContentOneGroup>>, <<ContentTwoGroups, ContentEmpty>>,
                <<ContentBadDate, ContentOneGroup>>, <<ContentOneGroup, ContentBadDate>> } }
    \cup { ("l1.gz" :> ContentNoGroups @@ "l2.gz" :> ContentOneGroup
              @@ "l3.gz" :> ContentOneGroup) }

\* the range documents the IP-range source may publish
RangeDocs ==
    << [prefixes |-> << [service |-> "AMAZON", region |-> "eu-west-2",
                         ip_prefix |-> "10.1.0.0/16"],
                        [service |-> "AMAZON", region |-> "us-east-1",
                         ip_prefix |-> "192.168.0.0/16"] >>],
       [prefixes |-> << [service |-> "AMAZON", region |-> "eu-west-2",
                         ip_prefix |-> "10.1.0.0/16"],
                        [service |-> "AMAZON", region |-> "eu-west-2",
                         ip_prefix |-> "192.168.0.0/16"],
                        [service |-> "AMAZON", region |-> "us-east-1"] >>] >>

AWS_REGION == "eu-west-2"

\* list_files (s3_utils.py): the keys of the bucket in listing order, after
\* start_after when it is not empty
list_files(keys, start_after) ==
    Sorted({k \in keys : start_after = "" \/ StrLess(start_after, k)})

(***************************************************************************)
(* The state file on disk (state.py).  The model keeps what the bytes of   *)
(* the file parse as: head is the document last written at offset 0, hlen  *)
(* its length and len the length of the file; the file parses as head      *)
(* exactly when nothing follows it (len = hlen).                           *)
(*   kind "doc"      a JSON object whose "processed" is the list keys      *)
(*   kind "badshape" valid JSON that is no such object (the text [])       *)
(*   kind "junk"     text json.load rejects with JSONDecodeError           *)
(***************************************************************************)
MissingFile == [exists |-> FALSE, kind |-> "junk", keys |-> {}, hlen |-> 0, len |-> 0]

\* the text json.dump({"processed": []}, f) writes for a missing state file
CreatedText == "{\"processed\": []}"

RECURSIVE ItemsLen(_)
\* the length of the items of the list, as json.dump(..., indent=2) writes them
ItemsLen(keys) ==
    IF keys = {} THEN 0
    ELSE LET k == CHOOSE k \in keys : TRUE
         IN  Len("\n    \"") + Len(k) + Len("\"") + ItemsLen(keys \ {k})
                 + (IF keys = {k} THEN 0 ELSE Len(","))

\* the length of json.dump({"processed": list(keys)}, f, indent=2)
DumpLen(keys) ==
    IF keys = {} THEN Len("{\n  \"processed\": []\n}")
    ELSE Len("{\n  \"processed\": [") + ItemsLen(keys) + Len("\n  ]\n}")

\* open(path, "w") / open(path, "w+"): the file exists and is empty
Truncated == [exists |-> TRUE, kind |-> "junk", keys |-> {}, hlen |-> 0, len |-> 0]

\* a write of a document of n bytes at offset 0: bytes of the file past n stay
WriteAtStart(f, keys, n) ==
    [exists |-> TRUE, kind |-> "doc", keys |-> keys, hlen |-> n,
     len |-> IF f.len > n THEN f.len ELSE n]

\* f.truncate() at position n (a shorter file is extended with zero bytes)
TruncateAt(f, n) == [f EXCEPT !.len = n]

\* what json.load makes of the file: "doc", "badshape" or "junk"
Parses(f) == IF f.len # f.hlen \/ f.len = 0 THEN "junk" ELSE f.kind

\* the processed keys a reader of the file gets, {} when it does not parse
PersistedKeys(f) == IF f.exists /\ Parses(f) = "doc" THEN f.keys ELSE {}

\* BillingScanner.get_start_after_key: every failure to read is caught
get_start_after_key(f) ==
    IF PersistedKeys(f) = {} THEN "" ELSE max(PersistedKeys(f))

\* the state files a first run may find
InitialFiles ==
    { MissingFile,
      [exists |-> TRUE, kind |-> "doc", keys |-> {}, hlen |-> DumpLen({}), len |-> DumpLen({})],
      [exists |-> TRUE, kind |-> "junk", keys |-> {}, hlen |-> Len("not json"), len |-> Len("not json")],
      [exists |-> TRUE, kind |-> "badshape", keys |-> {}, hlen |-> Len("[]"), len |-> Len("[]")] }

(***************************************************************************)
(* The state.                                                              *)
(***************************************************************************)
VARIABLES
    bucket,      \* key -> content of the log file (unchanged by the scanner)
    file,        \* the state file on disk
    lock,        \* the run holding flock(LOCK_EX) on the state file, 0 for none
    pc,          \* run -> where the run is
    ranges,      \* run -> index of the range document its classifier loaded
    all_files,   \* run -> all_files of BillingScanner.run
    new_files,   \* run -> new_files of BillingScanner.run
    idx,         \* run -> number of keys of new_files the loop has finished
    processed,   \* run -> ScannerState.processed
    groups,      \* run -> the aggregation of the file being emitted
    gi,          \* run -> number of groups of it sent so far
    exc,         \* run -> an exception is propagating out of the with block
    \* history, read by the properties only
    loaded,      \* run -> [kind, keys]: what __enter__ read from the file
    attempts,    \* run -> the process_log_file calls: [key, outcome, events]
    sent,        \* run -> the events producer.send accepted: [key, event]
    overlapped,  \* pairs of runs that were active at the same time
    \* a direct call of one of the scanner's functions, outside any run
    call,        \* the function called and its arguments
    ret          \* what the call returned, Pending before it returns

vars == <<bucket, file, lock, pc, ranges, all_files, new_files, idx, processed,
          groups, gi, exc, loaded, attempts, sent, overlapped, call, ret>>

\* the variables of a direct call
call_vars == <<call, ret>>

\* the variables of the runs
run_vars == <<bucket, file, lock, pc, ranges, all_files, new_files, idx, processed,
              groups, gi, exc, loaded, attempts, sent, overlapped>>

NoCall == [fn |-> "none"]

Pending == [returned |-> FALSE]

Final == {"done", "failed", "enter_failed", "construct_failed", "crashed"}

Active(p) == pc[p] \notin Final \cup {"idle"}

\* no run has started
NoRuns ==
    /\ lock = 0
    /\ pc = [p \in Procs |-> "idle"]
    /\ ranges = [p \in Procs |-> 0]
    /\ all_files = [p \in Procs |-> <<>>]
    /\ new_files = [p \in Procs |-> <<>>]
    /\ idx = [p \in Procs |-> 0]
    /\ processed = [p \in Procs |-> {}]
    /\ groups = [p \in Procs |-> <<>>]
    /\ gi = [p \in Procs |-> 0]
    /\ exc = [p \in Procs |-> FALSE]
    /\ loaded = [p \in Procs |-> [kind |-> "none", keys |-> {}]]
    /\ attempts = [p \in Procs |-> <<>>]
    /\ sent = [p \in Procs |-> <<>>]
    /\ overlapped = {}

Init ==
    /\ bucket \in Buckets
    /\ file \in InitialFiles
    /\ NoRuns
    /\ call = NoCall
    /\ ret = Pending

(***************************************************************************)
(* The steps of a run.                                                     *)
(***************************************************************************)
\* AWSIPClassifier.__init__: the two trees built from each range document
TreesOf == [d \in DOMAIN RangeDocs |-> build_trees(RangeDocs[d], AWS_REGION)]

\* the aggregation process_log_file computes, tabulated for every classifier,
\* key and content of the model
AggregateTable ==
    [d \in DOMAIN RangeDocs |->
        [k \in BucketKeys |-> [c \in Contents |-> Aggregate(TreesOf[d], c, k)]]]

\* a state whose already_scanned finds no key
never_scanned(scanned, key) == FALSE

\* ScannerState.already_scanned
already_scanned(scanned, key) == key \in scanned

\* the key process_log_file is called with next
CurrentKey(p) == new_files[p][idx[p] + 1]

\* a run that marks the key whatever process_log_file returned
MarkAlways(result, scanned, key) == scanned \cup {key}

\* BillingScanner.run, "if self.process_log_file(key): state.mark_scanned(key)"
MarkIf(result, scanned, key) == IF result THEN scanned \cup {key} ELSE scanned

\* a process_log_file that returns True from inside its loop, after the
\* first group is sent
AllSentEarly(n, aggregation) == n >= 1 \/ n = Len(aggregation)

\* process_log_file leaves its loop over the groups, and returns True, once
\* producer.send has returned for each of them
AllSent(n, aggregation) == n = Len(aggregation)

\* the events process_log_file builds for the groups of an aggregation
EventsOf(aggregation) == [i \in 1..Len(aggregation) |-> BillingEvent(aggregation[i])]

\* the outcomes of requests.get(url) with raise_for_status() and json(), and
\* of reading the fallback file ("none": no fallback file is configured)
LiveOutcomes == {"ok", "failed"}

FallbackOutcomes == {"ok", "failed", "none"}

\* AWSIPClassifier.__init__: the index of the document bound to ip_data, 0
\* when neither the live fetch nor the fallback bound it
ip_data(live, fallback, d) == IF live = "ok" \/ fallback = "ok" THEN d ELSE 0

\* a constructor whose handlers log the failures and go on
InitNeverRaises(live, fallback) == FALSE

\* AWSIPClassifier.__init__ raises, and BillingScanner.__init__ re-raises,
\* when the live fetch failed and the fallback failed or is not configured
InitRaises(live, fallback) == live = "failed" /\ fallback \in {"failed", "none"}

\* BillingScanner.__init__: the classifier loads the range document published
\* at the time, which is the one the run before loaded or a later one; when
\* the constructor raises, cli ends before it calls run
Construct(p) ==
    /\ pc[p] = "idle"
    /\ \A q \in 1..(p - 1) : pc[q] # "idle"
    /\ \E live \in LiveOutcomes, fallback \in FallbackOutcomes, d \in DOMAIN RangeDocs :
          /\ \A q \in 1..(p - 1) : ranges[q] <= d
          /\ ranges' = [ranges EXCEPT ![p] = ip_data(live, fallback, d)]
          /\ pc' = [pc EXCEPT ![p] = IF InitRaises(live, fallback)
                                     THEN "construct_failed" ELSE "list"]
    /\ overlapped' = overlapped \cup {{p, q} : q \in {r \in Procs : Active(r)}}
    /\ UNCHANGED call_vars
    /\ UNCHANGED <<bucket, file, lock, all_files, new_files, idx, processed,
                   groups, gi, exc, loaded, attempts, sent>>

\* the scheduler starts a run when no other run is active
StartRun(p) == (\A q \in Procs : ~Active(q)) /\ Construct(p)

\* the scheduler starts a run whatever the other runs do
StartOverlappingRun(p) == p <= MaxOverlapRuns /\ Construct(p)

\* BillingScanner.list_log_files: read the state file, list the bucket
ListLogFiles(p) ==
    /\ pc[p] = "list"
    /\ all_files' = [all_files EXCEPT
                        ![p] = list_files(DOMAIN bucket, get_start_after_key(file))]
    /\ pc' = [pc EXCEPT ![p] = "enter"]
    /\ UNCHANGED call_vars
    /\ UNCHANGED <<bucket, file, lock, ranges, new_files, idx, processed,
                   groups, gi, exc, loaded, attempts, sent, overlapped>>

\* ScannerState.__enter__: os.path.exists(self.file_location)
EnterExists(p) ==
    /\ pc[p] = "enter"
    /\ pc' = [pc EXCEPT ![p] = IF file.exists THEN "open" ELSE "create"]
    /\ UNCHANGED call_vars
    /\ UNCHANGED <<bucket, file, lock, ranges, all_files, new_files, idx, processed,
                   groups, gi, exc, loaded, attempts, sent, overlapped>>

\* ScannerState.__enter__: open(self.file_location, "w+")
EnterCreate(p) ==
    /\ pc[p] = "create"
    /\ file' = Truncated
    /\ pc' = [pc EXCEPT ![p] = "create_write"]
    /\ UNCHANGED call_vars
    /\ UNCHANGED <<bucket, lock, ranges, all_files, new_files, idx, processed,
                   groups, gi, exc, loaded, attempts, sent, overlapped>>

\* ScannerState.__enter__: json.dump({"processed": []}, f), written at close
EnterCreateWrite(p) ==
    /\ pc[p] = "create_write"
    /\ file' = WriteAtStart(file, {}, Len(CreatedText))
    /\ pc' = [pc EXCEPT ![p] = "open"]
    /\ UNCHANGED call_vars
    /\ UNCHANGED <<bucket, lock, ranges, all_files, new_files, idx, processed,
                   groups, gi, exc, loaded, attempts, sent, overlapped>>

\* ScannerState.__enter__: open(self.file_location, "r+") and flock(LOCK_EX),
\* which blocks while another run holds the lock
EnterLock(p) ==
    /\ pc[p] = "open"
    /\ lock = 0
    /\ lock' = p
    /\ pc' = [pc EXCEPT ![p] = "load"]
    /\ UNCHANGED call_vars
    /\ UNCHANGED <<bucket, file, ranges, all_files, new_files, idx, processed,
                   groups, gi, exc, loaded, attempts, sent, overlapped>>

\* an __enter__ that locks the file and keeps the empty set of __init__
EnterWithoutLoad(p) ==
    /\ pc[p] = "load"
    /\ loaded' = [loaded EXCEPT ![p] = [kind |-> Parses(file), keys |-> PersistedKeys(file)]]
    /\ pc' = [pc EXCEPT ![p] = "loop"]
    /\ processed' = [processed EXCEPT ![p] = {}]
    /\ new_files' = [new_files EXCEPT ![p] = all_files[p]]
    /\ UNCHANGED call_vars
    /\ UNCHANGED <<bucket, file, lock, ranges, all_files, idx, groups, gi, exc,
                   attempts, sent, overlapped>>

\* ScannerState.__enter__: json.load, of which only JSONDecodeError is handled,
\* then the filter of BillingScanner.run.  Any other exception leaves
\* __enter__ and ends the process, which drops the lock.
EnterLoad(p) ==
    /\ pc[p] = "load"
    /\ loaded' = [loaded EXCEPT ![p] = [kind |-> Parses(file), keys |-> PersistedKeys(file)]]
    /\ IF Parses(file) = "badshape"
       THEN /\ pc' = [pc EXCEPT ![p] = "enter_failed"]
            /\ lock' = 0
            /\ UNCHANGED <<processed, new_files>>
       ELSE /\ pc' = [pc EXCEPT ![p] = "loop"]
            /\ processed' = [processed EXCEPT ![p] = PersistedKeys(file)]
            /\ new_files' = [new_files EXCEPT
                                ![p] = SelectSeq(all_files[p],
                                                 LAMBDA k : ~already_scanned(PersistedKeys(file), k))]
            /\ UNCHANGED lock
    /\ UNCHANGED call_vars
    /\ UNCHANGED <<bucket, file, ranges, all_files, idx, groups, gi, exc,
                   attempts, sent, overlapped>>

\* download_file raises: nothing between it and the with statement handles it
DownloadRaises(p) ==
    /\ pc[p] = "loop"
    /\ idx[p] < Len(new_files[p])
    /\ attempts' = [attempts EXCEPT
                       ![p] = Append(@, [key |-> CurrentKey(p), outcome |-> "download_raised",
                                         events |-> <<>>])]
    /\ exc' = [exc EXCEPT ![p] = TRUE]
    /\ pc' = [pc EXCEPT ![p] = "exit_write"]
    /\ UNCHANGED call_vars
    /\ UNCHANGED <<bucket, file, lock, ranges, all_files, new_files, idx, processed,
                   groups, gi, loaded, sent, overlapped>>

\* what a call of process_log_file comes to before its loop over the groups
Outcome(content, agg) ==
    IF content = "" THEN "empty"
    ELSE IF agg.raised THEN "parse_raised"
    ELSE IF AllSent(0, agg.aggregation) THEN "ok"
    ELSE "emitting"

\* process_log_file up to its loop over the groups: download, then aggregate
ProcessLogFile(p) ==
    /\ pc[p] = "loop"
    /\ idx[p] < Len(new_files[p])
    /\ \E key \in {CurrentKey(p)} :
       \E agg \in {AggregateTable[ranges[p]][key][bucket[key]]} :
       \E outcome \in {Outcome(bucket[key], agg)} :
           /\ attempts' = [attempts EXCEPT
                              ![p] = Append(@, [key |-> key, outcome |-> outcome,
                                                events |-> IF outcome \in {"ok", "emitting"}
                                                           THEN EventsOf(agg.aggregation)
                                                           ELSE <<>>])]
           /\ exc' = [exc EXCEPT ![p] = (outcome = "parse_raised")]
           /\ groups' = [groups EXCEPT ![p] = IF outcome = "emitting" THEN agg.aggregation ELSE <<>>]
           /\ processed' = [processed EXCEPT ![p] = MarkIf(outcome = "ok", @, key)]
           /\ idx' = [idx EXCEPT ![p] = IF outcome \in {"empty", "ok"} THEN @ + 1 ELSE @]
           /\ pc' = [pc EXCEPT ![p] = IF outcome = "parse_raised" THEN "exit_write"
                                      ELSE IF outcome = "emitting" THEN "emit"
                                      ELSE "loop"]
    /\ gi' = [gi EXCEPT ![p] = 0]
    /\ UNCHANGED call_vars
    /\ UNCHANGED <<bucket, file, lock, ranges, all_files, new_files, loaded, sent,
                   overlapped>>

\* producer.send returns for the next group; after the last one
\* process_log_file returns True and run marks the key
SendOk(p) ==
    /\ pc[p] = "emit"
    /\ LET key  == CurrentKey(p)
           last == AllSent(gi[p] + 1, groups[p])
       IN  /\ sent' = [sent EXCEPT
                          ![p] = Append(@, [key |-> key,
                                            event |-> BillingEvent(groups[p][gi[p] + 1])])]
           /\ gi' = [gi EXCEPT ![p] = @ + 1]
           /\ processed' = [processed EXCEPT ![p] = MarkIf(last, @, key)]
           /\ attempts' = [attempts EXCEPT
                              ![p][Len(attempts[p])].outcome = IF last THEN "ok" ELSE @]
           /\ idx' = [idx EXCEPT ![p] = IF last THEN @ + 1 ELSE @]
           /\ pc' = [pc EXCEPT ![p] = IF last THEN "loop" ELSE "emit"]
    /\ UNCHANGED call_vars
    /\ UNCHANGED <<bucket, file, lock, ranges, all_files, new_files, groups, exc,
                   loaded, overlapped>>

\* producer.send raises: process_log_file returns False, the key stays unmarked
SendFails(p) ==
    /\ pc[p] = "emit"
    /\ processed' = [processed EXCEPT ![p] = MarkIf(FALSE, @, CurrentKey(p))]
    /\ attempts' = [attempts EXCEPT ![p][Len(attempts[p])].outcome = "send_failed"]
    /\ idx' = [idx EXCEPT ![p] = @ + 1]
    /\ pc' = [pc EXCEPT ![p] = "loop"]
    /\ UNCHANGED call_vars
    /\ UNCHANGED <<bucket, file, lock, ranges, all_files, new_files, groups, gi, exc,
                   loaded, sent, overlapped>>

\* the loop over new_files is exhausted: the with block is left
LoopEnd(p) ==
    /\ pc[p] = "loop"
    /\ idx[p] = Len(new_files[p])
    /\ pc' = [pc EXCEPT ![p] = "exit_write"]
    /\ UNCHANGED call_vars
    /\ UNCHANGED <<bucket, file, lock, ranges, all_files, new_files, idx, processed,
                   groups, gi, exc, loaded, attempts, sent, overlapped>>

\* an __exit__ that writes the state only when the with block ended normally
ExitWriteUnlessRaised(p) ==
    /\ pc[p] = "exit_write"
    /\ file' = IF exc[p] THEN file
               ELSE WriteAtStart(file, processed[p], DumpLen(processed[p]))
    /\ pc' = [pc EXCEPT ![p] = "exit_truncate"]
    /\ UNCHANGED call_vars
    /\ UNCHANGED <<bucket, lock, ranges, all_files, new_files, idx, processed,
                   groups, gi, exc, loaded, attempts, sent, overlapped>>

\* ScannerState.__exit__: seek(0) and json.dump, flushed by truncate()
ExitWrite(p) ==
    /\ pc[p] = "exit_write"
    /\ file' = WriteAtStart(file, processed[p], DumpLen(processed[p]))
    /\ pc' = [pc EXCEPT ![p] = "exit_truncate"]
    /\ UNCHANGED call_vars
    /\ UNCHANGED <<bucket, lock, ranges, all_files, new_files, idx, processed,
                   groups, gi, exc, loaded, attempts, sent, overlapped>>

\* ScannerState.__exit__: truncate(), flock(LOCK_UN), close(); a propagating
\* exception then reaches the caller of run
ExitTruncate(p) ==
    /\ pc[p] = "exit_truncate"
    /\ file' = TruncateAt(file, DumpLen(processed[p]))
    /\ lock' = 0
    /\ pc' = [pc EXCEPT ![p] = IF exc[p] THEN "failed" ELSE "done"]
    /\ UNCHANGED call_vars
    /\ UNCHANGED <<bucket, ranges, all_files, new_files, idx, processed,
                   groups, gi, exc, loaded, attempts, sent, overlapped>>

\* the process of the run is terminated; the operating system drops its lock
Crash(p) ==
    /\ Active(p)
    /\ pc' = [pc EXCEPT ![p] = "crashed"]
    /\ lock' = IF lock = p THEN 0 ELSE lock
    /\ UNCHANGED call_vars
    /\ UNCHANGED <<bucket, file, ranges, all_files, new_files, idx, processed,
                   groups, gi, exc, loaded, attempts, sent, overlapped>>

Step(p) ==
    \/ ListLogFiles(p)
    \/ EnterExists(p)
    \/ EnterCreate(p)
    \/ EnterCreateWrite(p)
    \/ EnterLock(p)
    \/ EnterLoad(p)
    \/ DownloadRaises(p)
    \/ ProcessLogFile(p)
    \/ SendOk(p)
    \/ SendFails(p)
    \/ LoopEnd(p)
    \/ ExitWrite(p)
    \/ ExitTruncate(p)
    \/ Crash(p)

Next == \E p \in Procs : StartRun(p) \/ Step(p)

\* runs that never overlap
Spec == Init /\ [][Next]_vars

NextOverlap == \E p \in Procs : StartOverlappingRun(p) \/ Step(p)

\* runs that may overlap in time
SpecOverlap == Init /\ [][NextOverlap]_vars

(***************************************************************************)
(* The scanner of src/events/app.py: it loads the processed keys in its    *)
(* constructor, publishes one event per log line, and saves the keys at    *)
(* the end of run.  Its runs use the variables of the runs above; groups   *)
(* holds the events of the file being published and gi the number of them  *)
(* publish_event was called for.                                           *)
(***************************************************************************)
RECURSIVE SplitWhitespaceFrom(_, _)
\* the maximal runs of characters other than whitespace, from position start on
SplitWhitespaceFrom(s, start) ==
    LET words == {i \in start..Len(s) : Char(s, i) \notin Whitespace}
    IN  IF words = {} THEN <<>>
        ELSE LET b    == CHOOSE i \in words : \A k \in words : i <= k
                 ends == {i \in b..Len(s) : Char(s, i) \in Whitespace}
                 e    == IF ends = {} THEN Len(s) + 1
                         ELSE CHOOSE i \in ends : \A k \in ends : i <= k
             IN  <<SubSeq(s, b, e - 1)>> \o SplitWhitespaceFrom(s, e)

\* str.split() with no separator
split_whitespace(s) == SplitWhitespaceFrom(s, 1)

\* map_domain_to_workspace: mapping.get(domain), "" for None
map_domain_to_workspace(domain) ==
    IF domain = "dsakofwkmfc6v.cloudfront.net" THEN "workspace1" ELSE ""

determine_destination(uri) == "current-region"

\* process_log_line of app.py: IndexError and ValueError are caught
app_process_log_line(line) ==
    IF startswith(line, "#") THEN NoRecord
    ELSE LET fields == split_whitespace(line)
         IN  IF Len(fields) < 10 THEN NoRecord
             ELSE LET date         == Field(fields, 2)
                      time_str     == Field(fields, 3)
                      sc_bytes     == Field(fields, 5)
                      cs_host      == Field(fields, 8)
                      cs_uri_stem  == Field(fields, 9)
                      workspace_id == map_domain_to_workspace(cs_host)
                  IN  IF workspace_id = "" \/ ~IntOk(sc_bytes) THEN NoRecord
                      ELSE [ok           |-> TRUE,
                            event_id     |-> workspace_id \o "-" \o date \o "-" \o time_str
                                                 \o "-" \o cs_uri_stem \o "-" \o sc_bytes,
                            workspace_id |-> workspace_id,
                            destination  |-> determine_destination(cs_uri_stem),
                            data_size    |-> int(sc_bytes),
                            timestamp    |-> date \o "T" \o time_str \o "Z"]

\* the events process_log_file of app.py publishes for a content, in line order
AppEventsOf(content) ==
    SelectSeq([n \in DOMAIN splitlines(content) |-> app_process_log_line(splitlines(content)[n])],
              LAMBDA event : event.ok)

\* a log line with the ten fields app.py reads
AppLine(date, time_str, sc_bytes, cs_host, cs_uri_stem) ==
    "1744033128\tEYK26O46YS1D0\t" \o date \o "\t" \o time_str \o "\tLHR3-C2\t"
        \o sc_bytes \o "\t10.1.2.3\tGET\t" \o cs_host \o "\t" \o cs_uri_stem

AppHost == "dsakofwkmfc6v.cloudfront.net"

\* two lines of the mapped domain
AppContentTwoEvents ==
    AppLine("2025-04-07", "13:38:48", "398", AppHost, "/a") \o "\n"
        \o AppLine("2025-04-07", "13:39:00", "200", AppHost, "/b") \o "\n"

\* a header line, a line of the mapped domain and a line of another domain
AppContentOneEvent ==
    "#Version: 1.0\n" \o AppLine("2025-04-08", "09:00:00", "10", AppHost, "/c") \o "\n"
        \o AppLine("2025-04-08", "09:00:01", "11", "dummy.example.com", "/d") \o "\n"

AppContents == {AppContentTwoEvents, AppContentOneEvent, ContentEmpty}

AppBuckets ==
    { ("l1.gz" :> c[1] @@ "l2.gz" :> c[2]) :
        c \in { <<AppContentTwoEvents, AppContentOneEvent>>,
                <<AppContentOneEvent, ContentEmpty>> } }

AppEventsTable == [c \in AppContents |-> AppEventsOf(c)]

InitApp ==
    /\ bucket \in AppBuckets
    /\ file \in InitialFiles
    /\ NoRuns
    /\ call = NoCall
    /\ ret = Pending

\* the positions of save_processed_files between its open(path, "w") and the
\* close of the file
AppSaving == {"app_save_lock", "app_save_dump", "app_save_close"}

\* main: BillingScanner() is constructed, whatever the other runs do
AppStart(p) ==
    /\ pc[p] = "idle"
    /\ \A q \in 1..(p - 1) : pc[q] # "idle"
    /\ pc' = [pc EXCEPT ![p] = "app_exists"]
    /\ overlapped' = overlapped \cup {{p, q} : q \in {r \in Procs : Active(r)}}
    /\ UNCHANGED call_vars
    /\ UNCHANGED <<bucket, file, lock, ranges, all_files, new_files, idx, processed,
                   groups, gi, exc, loaded, attempts, sent>>

\* load_processed_files: os.path.exists(self.state_file)
AppLoadExists(p) ==
    /\ pc[p] = "app_exists"
    /\ pc' = [pc EXCEPT ![p] = IF file.exists THEN "app_open" ELSE "app_create"]
    /\ UNCHANGED call_vars
    /\ UNCHANGED <<bucket, file, lock, ranges, all_files, new_files, idx, processed,
                   groups, gi, exc, loaded, attempts, sent, overlapped>>

\* load_processed_files: open(self.state_file, "w")
AppLoadCreate(p) ==
    /\ pc[p] = "app_create"
    /\ file' = Truncated
    /\ pc' = [pc EXCEPT ![p] = "app_create_write"]
    /\ UNCHANGED call_vars
    /\ UNCHANGED <<bucket, lock, ranges, all_files, new_files, idx, processed,
                   groups, gi, exc, loaded, attempts, sent, overlapped>>

\* load_processed_files: json.dump({"processed": []}, f), written at close
AppLoadCreateWrite(p) ==
    /\ pc[p] = "app_create_write"
    /\ file' = WriteAtStart(file, {}, Len(CreatedText))
    /\ pc' = [pc EXCEPT ![p] = "app_open"]
    /\ UNCHANGED call_vars
    /\ UNCHANGED <<bucket, lock, ranges, all_files, new_files, idx, processed,
                   groups, gi, exc, loaded, attempts, sent, overlapped>>

\* load_processed_files: open(self.state_file, "r") and acquire_lock
AppLoadLock(p) ==
    /\ pc[p] = "app_open"
    /\ lock = 0
    /\ lock' = p
    /\ pc' = [pc EXCEPT ![p] = "app_load"]
    /\ UNCHANGED call_vars
    /\ UNCHANGED <<bucket, file, ranges, all_files, new_files, idx, processed,
                   groups, gi, exc, loaded, attempts, sent, overlapped>>

\* load_processed_files: json.load, of which only JSONDecodeError is handled,
\* and release_lock in the finally clause; loaded records the runs that were
\* saving when the file was read
AppLoad(p) ==
    /\ pc[p] = "app_load"
    /\ loaded' = [loaded EXCEPT
                     ![p] = [kind |-> Parses(file), keys |-> PersistedKeys(file),
                             saving |-> {q \in Procs \ {p} : pc[q] \in AppSaving}]]
    /\ lock' = 0
    /\ IF Parses(file) = "badshape"
       THEN /\ pc' = [pc EXCEPT ![p] = "construct_failed"]
            /\ UNCHANGED processed
       ELSE /\ pc' = [pc EXCEPT ![p] = "app_list"]
            /\ processed' = [processed EXCEPT ![p] = PersistedKeys(file)]
    /\ UNCHANGED call_vars
    /\ UNCHANGED <<bucket, file, ranges, all_files, new_files, idx, groups, gi, exc,
                   attempts, sent, overlapped>>

\* run: list_log_files lists every key under the prefix, and the filter
AppList(p) ==
    /\ pc[p] = "app_list"
    /\ all_files' = [all_files EXCEPT ![p] = Sorted(DOMAIN bucket)]
    /\ new_files' = [new_files EXCEPT
                        ![p] = SelectSeq(Sorted(DOMAIN bucket),
                                         LAMBDA k : k \notin processed[p])]
    /\ pc' = [pc EXCEPT ![p] = "app_loop"]
    /\ UNCHANGED call_vars
    /\ UNCHANGED <<bucket, file, lock, ranges, idx, processed, groups, gi, exc,
                   loaded, attempts, sent, overlapped>>

\* download_log_file catches the failure and returns None: process_log_file
\* returns False
AppDownloadFails(p) ==
    /\ pc[p] = "app_loop"
    /\ idx[p] < Len(new_files[p])
    /\ attempts' = [attempts EXCEPT
                       ![p] = Append(@, [key |-> CurrentKey(p), outcome |-> "download_failed",
                                         events |-> <<>>, failed |-> 0])]
    /\ idx' = [idx EXCEPT ![p] = @ + 1]
    /\ UNCHANGED call_vars
    /\ UNCHANGED <<bucket, file, lock, pc, ranges, all_files, new_files, processed,
                   groups, gi, exc, loaded, sent, overlapped>>

\* what a call of process_log_file of app.py comes to before it publishes
AppOutcome(content, events) ==
    IF content = "" THEN "empty"
    ELSE IF events = <<>> THEN "ok"
    ELSE "publishing"

\* process_log_file of app.py up to its first publish_event
AppProcessLogFile(p) ==
    /\ pc[p] = "app_loop"
    /\ idx[p] < Len(new_files[p])
    /\ \E key \in {CurrentKey(p)} :
       \E events \in {AppEventsTable[bucket[key]]} :
       \E outcome \in {AppOutcome(bucket[key], events)} :
           /\ attempts' = [attempts EXCEPT
                              ![p] = Append(@, [key |-> key, outcome |-> outcome,
                                                events |-> events, failed |-> 0])]
           /\ groups' = [groups EXCEPT ![p] = events]
           /\ processed' = [processed EXCEPT
                               ![p] = IF outcome = "ok" THEN @ \cup {key} ELSE @]
           /\ idx' = [idx EXCEPT ![p] = IF outcome = "publishing" THEN @ ELSE @ + 1]
           /\ pc' = [pc EXCEPT ![p] = IF outcome = "publishing" THEN "app_publish"
                                      ELSE "app_loop"]
    /\ gi' = [gi EXCEPT ![p] = 0]
    /\ UNCHANGED call_vars
    /\ UNCHANGED <<bucket, file, lock, ranges, all_files, new_files, exc, loaded, sent,
                   overlapped>>

\* one call of publish_event, which returns True when the send succeeded and
\* False when it raised; process_log_file drops the result, and after the last
\* line it returns True and run adds the key
AppPublish(p, ok) ==
    /\ pc[p] = "app_publish"
    /\ \E key \in {CurrentKey(p)} :
       \E last \in {gi[p] + 1 = Len(groups[p])} :
           /\ sent' = [sent EXCEPT
                          ![p] = IF ok THEN Append(@, [key |-> key,
                                                       event |-> groups[p][gi[p] + 1]])
                                 ELSE @]
           /\ attempts' = [attempts EXCEPT
                              ![p][Len(attempts[p])] =
                                  [@ EXCEPT !.outcome = IF last THEN "ok" ELSE @,
                                            !.failed  = IF ok THEN @ ELSE @ + 1]]
           /\ processed' = [processed EXCEPT ![p] = IF last THEN @ \cup {key} ELSE @]
           /\ idx' = [idx EXCEPT ![p] = IF last THEN @ + 1 ELSE @]
           /\ pc' = [pc EXCEPT ![p] = IF last THEN "app_loop" ELSE "app_publish"]
    /\ gi' = [gi EXCEPT ![p] = @ + 1]
    /\ UNCHANGED call_vars
    /\ UNCHANGED <<bucket, file, lock, ranges, all_files, new_files, groups, exc,
                   loaded, overlapped>>

\* run: the loop over new_files is exhausted
AppLoopEnd(p) ==
    /\ pc[p] = "app_loop"
    /\ idx[p] = Len(new_files[p])
    /\ pc' = [pc EXCEPT ![p] = "app_save_open"]
    /\ UNCHANGED call_vars
    /\ UNCHANGED <<bucket, file, lock, ranges, all_files, new_files, idx, processed,
                   groups, gi, exc, loaded, attempts, sent, overlapped>>

\* save_processed_files: open(self.state_file, "w") empties the file
AppSaveOpen(p) ==
    /\ pc[p] = "app_save_open"
    /\ file' = Truncated
    /\ pc' = [pc EXCEPT ![p] = "app_save_lock"]
    /\ UNCHANGED call_vars
    /\ UNCHANGED <<bucket, lock, ranges, all_files, new_files, idx, processed,
                   groups, gi, exc, loaded, attempts, sent, overlapped>>

\* save_processed_files: acquire_lock
AppSaveLock(p) ==
    /\ pc[p] = "app_save_lock"
    /\ lock = 0
    /\ lock' = p
    /\ pc' = [pc EXCEPT ![p] = "app_save_dump"]
    /\ UNCHANGED call_vars
    /\ UNCHANGED <<bucket, file, ranges, all_files, new_files, idx, processed,
                   groups, gi, exc, loaded, attempts, sent, overlapped>>

\* save_processed_files: json.dump fills the buffer of f, then release_lock
AppSaveUnlock(p) ==
    /\ pc[p] = "app_save_dump"
    /\ lock' = 0
    /\ pc' = [pc EXCEPT ![p] = "app_save_close"]
    /\ UNCHANGED call_vars
    /\ UNCHANGED <<bucket, file, ranges, all_files, new_files, idx, processed,
                   groups, gi, exc, loaded, attempts, sent, overlapped>>

\* save_processed_files: the with statement closes f, which writes the buffer
\* at the start of the file; run returns
AppSaveClose(p) ==
    /\ pc[p] = "app_save_close"
    /\ file' = WriteAtStart(file, processed[p], DumpLen(processed[p]))
    /\ pc' = [pc EXCEPT ![p] = "done"]
    /\ UNCHANGED call_vars
    /\ UNCHANGED <<bucket, lock, ranges, all_files, new_files, idx, processed,
                   groups, gi, exc, loaded, attempts, sent, overlapped>>

AppStep(p) ==
    \/ AppStart(p)
    \/ AppLoadExists(p)
    \/ AppLoadCreate(p)
    \/ AppLoadCreateWrite(p)
    \/ AppLoadLock(p)
    \/ AppLoad(p)
    \/ AppList(p)
    \/ AppDownloadFails(p)
    \/ AppProcessLogFile(p)
    \/ \E ok \in BOOLEAN : AppPublish(p, ok)
    \/ AppLoopEnd(p)
    \/ AppSaveOpen(p)
    \/ AppSaveLock(p)
    \/ AppSaveUnlock(p)
    \/ AppSaveClose(p)

NextApp == \E p \in Procs : AppStep(p)

\* runs of the scanner of app.py, which may overlap in time
SpecApp == InitApp /\ [][NextApp]_vars

(***************************************************************************)
(* Direct calls of the scanner's functions, as the unit tests make them:   *)
(* the arguments are drawn when the behaviour starts, one step applies the *)
(* function.  No run is started in these behaviours.                       *)
(***************************************************************************)
\* the range document of the classifier's test (a null ipv6_prefix is absent)
TestRanges ==
    [prefixes |-> << [service |-> "AMAZON", region |-> "eu-west-2",
                      ip_prefix |-> "10.1.0.0/16", ipv6_prefix |-> "2001:db8::/32"],
                     [service |-> "AMAZON", region |-> "us-east-1",
                      ip_prefix |-> "192.168.0.0/16"] >>]

\* prefixes of the region inside prefixes of another region, and the reverse
NestedRanges ==
    [prefixes |-> << [service |-> "AMAZON", region |-> "us-east-1",
                      ip_prefix |-> "10.1.0.0/16", ipv6_prefix |-> "2001:db8::/32"],
                     [service |-> "AMAZON", region |-> "eu-west-2",
                      ip_prefix |-> "10.1.2.0/23", ipv6_prefix |-> "2001:db8:8000::/33"],
                     [service |-> "AMAZON", region |-> "eu-west-2",
                      ip_prefix |-> "192.168.0.0/16"],
                     [service |-> "AMAZON", region |-> "GLOBAL",
                      ip_prefix |-> "192.168.1.0/24"] >>]

\* entries of services other than AMAZON, and an entry that names no region
ServiceRanges ==
    [prefixes |-> << [service |-> "AMAZON", region |-> "eu-west-2",
                      ip_prefix |-> "10.1.0.0/16"],
                     [service |-> "EC2", region |-> "eu-west-2",
                      ip_prefix |-> "10.1.2.0/24"],
                     [service |-> "S3", region |-> "us-east-1",
                      ip_prefix |-> "8.8.8.0/24"],
                     [service |-> "AMAZON", ip_prefix |-> "192.168.1.1/32"],
                     [service |-> "CLOUDFRONT", region |-> "eu-west-2",
                      ipv6_prefix |-> "2001:db9::/32"] >>]

EmptyRanges == [prefixes |-> <<>>]

ClassifyDocs == {TestRanges, NestedRanges, ServiceRanges, EmptyRanges}

\* client addresses of both families
Addresses ==
    {"10.1.2.3", "10.1.3.255", "10.1.4.0", "10.0.255.255", "10.2.0.0", "192.168.1.1",
     "192.168.1.2", "192.168.2.1", "8.8.8.8", "8.8.9.8", "0.0.0.0", "255.255.255.255",
     "2001:db8::1", "2001:db9::1", "2001:db8:8000::", "2001:db8:7fff:ffff:ffff:ffff:ffff:ffff",
     "2001:DB8:ffff::abcd", "::1", "::", "2001:db7:ffff:ffff:ffff:ffff:ffff:ffff"}

\* the calls of classify on a classifier built from a range document
ClassifyCalls ==
    {[fn |-> "classify", ip_data |-> d, client_ip |-> a] : d \in ClassifyDocs, a \in Addresses}

\* valid lines of two workspaces and two tiers, at instants whose order
\* differs from the order of the lines
ValidLines ==
    { LogLine("2025-04-07", "13:39:00", "200", "10.1.2.3", Ws1Host),
      LogLine("2025-04-07", "13:38:48", "398", "10.1.2.3", Ws1Host),
      LogLine("2025-04-06", "23:59:59", "1", "8.8.8.8", Ws1Host),
      LogLine("2025-04-07", "13:39:00", "50", "10.1.2.3", Ws2Host),
      LogLine("2025-12-01", "00:00:00", "0", "10.1.2.3", Ws1Host) }

RECURSIVE JoinLines(_)
\* the content of a file with these lines
JoinLines(lines) == IF lines = <<>> THEN "" ELSE Head(lines) \o "\n" \o JoinLines(Tail(lines))

\* the calls of process_log_file on a scanner whose download_log_file returns
\* the content and whose producer accepts every event
FileCalls ==
    {[fn |-> "process_log_file", ip_data |-> TestRanges, key |-> "dummy_log.txt",
      content |-> JoinLines(lines)] :
        lines \in UNION {[1..n -> ValidLines] : n \in 1..MaxLines}}

\* host headers: of a workspace, with and without further labels, and others
Hosts ==
    { Ws1Host, Ws2Host, "a.b.c.eodatahub-workspaces.org.uk",
      "eodatahub-workspaces.org.uk", "evil-eodatahub-workspaces.org.uk",
      "x.evileodatahub-workspaces.org.uk", ".eodatahub-workspaces.org.uk",
      "dummy.example.com", "workspace1.eodatahub-workspaces.org.uk.evil.com",
      "workspace1.eodatahub-workspaces.org.uk.", "workspace1.eodatahub-workspaces.org", "" }

\* the line of test_process_log_line_valid
TestLine == LogLine("2025-04-07", "13:38:48", "100", "10.1.2.3", Ws1Host)

RECURSIVE FirstFields(_, _)
\* the first n tab-separated fields of a line
FirstFields(line, n) ==
    IF n = 1 THEN split(line, "\t")[1]
    ELSE FirstFields(line, n - 1) \o "\t" \o split(line, "\t")[n]

\* lines of 18 fields with each host, lines cut short, comment and blank lines
Lines ==
    { LogLine("2025-04-07", "13:38:48", b, a, h) :
        b \in {"100", "-"}, a \in {"10.1.2.3", "8.8.8.8"}, h \in Hosts }
    \cup { FirstFields(TestLine, n) : n \in {3, 6, 7, 17} }
    \cup { "", " ", "\t", " \t \t", "\t\t\t\t\t\t\t\t\t\t\t\t\t\t\t\t\t",
           "#", "# This is a comment", "#Version: 1.0", "#" \o TestLine, " #" \o TestLine }

\* the calls of process_log_line
LineCalls ==
    {[fn |-> "process_log_line", ip_data |-> TestRanges, log_filename |-> "dummy_log.txt",
      line |-> l] : l \in Lines}

\* object keys with and without hyphens, and hosts whose first label has one
KeyFilenames == {"cf/E1.2025-04-07-13.ab12.gz", "cf/log", "cf/log-eu"}

KeyHosts == {"team." \o expected_domain, "eu-team." \o expected_domain}

\* the calls of process_log_line for lines of these hosts in these files
KeyCalls ==
    {[fn |-> "process_log_line", ip_data |-> TestRanges, log_filename |-> f,
      line |-> LogLine("2025-04-07", "13:38:48", "100", a, h)] :
        f \in KeyFilenames, a \in {"10.1.2.3", "192.168.1.1"}, h \in KeyHosts}

Calls == ClassifyCalls \cup FileCalls \cup LineCalls \cup KeyCalls

InitCalls ==
    /\ bucket = ("l1.gz" :> ContentEmpty)
    /\ file = MissingFile
    /\ NoRuns
    /\ call \in Calls
    /\ ret = Pending

\* clf = AWSIPClassifier(...); clf.classify(client_ip)
CallClassify ==
    /\ call.fn = "classify"
    /\ ~ret.returned
    /\ ret' = [returned |-> TRUE,
               value |-> classify(build_trees(call.ip_data, AWS_REGION), call.client_ip)]
    /\ UNCHANGED call
    /\ UNCHANGED run_vars

\* the aggregation of process_log_file after each line of the content
Folds(trees, lines, key) ==
    [n \in DOMAIN lines |-> AggregateTo(trees, lines, key, n)]

\* scanner.process_log_file(key): the events sent, the result, and the
\* aggregation after each line (folds)
CallProcessLogFile ==
    /\ call.fn = "process_log_file"
    /\ ~ret.returned
    /\ \E folds \in {Folds(build_trees(call.ip_data, AWS_REGION),
                           splitlines(call.content), call.key)} :
       \E agg \in {IF folds = <<>> THEN [raised |-> FALSE, aggregation |-> <<>>]
                   ELSE folds[Len(folds)]} :
          ret' = IF call.content = ""
                 THEN [returned |-> TRUE, raised |-> FALSE, value |-> FALSE,
                       events |-> <<>>, folds |-> <<>>]
                 ELSE IF agg.raised
                 THEN [returned |-> TRUE, raised |-> TRUE, value |-> FALSE,
                       events |-> <<>>, folds |-> folds]
                 ELSE [returned |-> TRUE, raised |-> FALSE, value |-> TRUE,
                       events |-> EventsOf(agg.aggregation), folds |-> folds]
    /\ UNCHANGED call
    /\ UNCHANGED run_vars

\* scanner.process_log_line(line, log_filename)
CallProcessLogLine ==
    /\ call.fn = "process_log_line"
    /\ ~ret.returned
    /\ ret' = [returned |-> TRUE,
               value |-> process_log_line(build_trees(call.ip_data, AWS_REGION),
                                          call.line, call.log_filename)]
    /\ UNCHANGED call
    /\ UNCHANGED run_vars

NextCalls == CallClassify \/ CallProcessLogFile \/ CallProcessLogLine

\* one direct call per behaviour
SpecCalls == InitCalls /\ [][NextCalls]_vars

(***************************************************************************)
(* Properties.                                                             *)
(***************************************************************************)
\* the positions in sent[p] of the events of file k
SentOf(p, k) == {s \in DOMAIN sent[p] : sent[p][s].key = k}

\* the calls of process_log_file(k) in run p that returned True
OkAttempts(p, k) ==
    {i \in DOMAIN attempts[p] : attempts[p][i].key = k /\ attempts[p][i].outcome = "ok"}

\* the keys run p marked with mark_scanned
Marked(p) == processed[p] \ loaded[p].keys

\* run p sent event e of file k exactly once
SentOnce(p, k, e) == Cardinality({s \in SentOf(p, k) : sent[p][s].event = e}) = 1

\* C1: a key is marked processed in a run only after producer.send returned
\* for every group of that file in that run, and a key for which a send
\* failed is not marked in that run.
C1_MarkedOnlyAfterAllGroupsSent ==
    \A p \in Procs :
        /\ \A k \in Marked(p) :
              \E i \in OkAttempts(p, k) :
                  \A j \in DOMAIN attempts[p][i].events :
                      SentOnce(p, k, attempts[p][i].events[j])
        /\ \A i \in DOMAIN attempts[p] :
              attempts[p][i].outcome = "send_failed" => attempts[p][i].key \notin processed[p]

\* a run has marked a file of two groups, and another of its files failed to send
C1_Witness ==
    \E p \in Procs :
        /\ \E k \in Marked(p) : \E i \in OkAttempts(p, k) : Len(attempts[p][i].events) = 2
        /\ \E i \in DOMAIN attempts[p] : attempts[p][i].outcome = "send_failed"

\* C2 (the claim as stated): a file a finished run left unmarked, for empty
\* content or a failed send, is listed and attempted by the next run that runs
\* to its end, whatever other keys were marked.
C2_UnmarkedFileRetriedNextRun ==
    \A p \in Procs :
        (p + 1 \in Procs /\ pc[p] \in {"done", "failed"} /\ pc[p + 1] = "done") =>
            \A i \in DOMAIN attempts[p] :
                attempts[p][i].outcome \in {"empty", "send_failed"} =>
                    /\ \E n \in DOMAIN all_files[p + 1] :
                          all_files[p + 1][n] = attempts[p][i].key
                    /\ \E j \in DOMAIN attempts[p + 1] :
                          attempts[p + 1][j].key = attempts[p][i].key

\* C3 (the claim as stated): two runs that overlapped in time and both ran to
\* their end never both processed the same key.
C3_NoKeyProcessedByBothRuns ==
    \A p, q \in Procs :
        (p # q /\ {p, q} \in overlapped /\ pc[p] = "done" /\ pc[q] = "done") =>
            \A k \in BucketKeys : OkAttempts(p, k) = {} \/ OkAttempts(q, k) = {}

\* the steps of run p that read, create or write the state file
StateFileStep(p) ==
    /\ pc[p] \in {"list", "create", "create_write", "load", "exit_write", "exit_truncate"}
    /\ pc'[p] \notin {pc[p], "crashed"}

\* C4 (the claim as stated): every read, creation and write of the state file
\* by a run happens while that run holds the exclusive lock.
C4_StateAccessOnlyUnderLock ==
    [][\A p \in Procs : StateFileStep(p) => lock = p]_vars

\* C5 (the claim as stated): over all runs, crashed ones included, there is
\* at most one run in which all the events of a file are emitted.
C5_FileEmittedInOneRunOnly ==
    \A k \in BucketKeys : Cardinality({p \in Procs : OkAttempts(p, k) # {}}) <= 1

\* C6 (the claim as stated): when a run is terminated, at most one of the files
\* whose events it emitted in full is missing from the persisted processed set.
C6_CrashLosesAtMostOneFile ==
    \A p \in Procs :
        (pc[p] = "crashed" /\ \A q \in Procs : q > p => pc[q] = "idle") =>
            Cardinality({k \in BucketKeys : OkAttempts(p, k) # {}} \ PersistedKeys(file)) <= 1

\* C7: when a send failed for a file in one run and a later run with the same
\* range document processes the file with success, the later run sends every
\* event the first attempt built, identifiers included, each once, and no other.
C7_RetryEmitsSameEvents ==
    \A p, q \in Procs : \A i \in DOMAIN attempts[p] : \A j \in DOMAIN attempts[q] :
        ( /\ p < q
          /\ ranges[p] = ranges[q]
          /\ attempts[p][i].key = attempts[q][j].key
          /\ attempts[p][i].outcome = "send_failed"
          /\ attempts[q][j].outcome = "ok" ) =>
            LET k == attempts[p][i].key
                first == attempts[p][i].events
            IN  /\ \A n \in DOMAIN first :
                      Cardinality({s \in SentOf(q, k) :
                                      sent[q][s].event.uuid = first[n].uuid}) = 1
                /\ Cardinality(SentOf(q, k)) = Len(first)

\* a file of two groups failed to send in one run and was processed by a later one
C7_Witness ==
    \E p, q \in Procs : \E i \in DOMAIN attempts[p] : \E j \in DOMAIN attempts[q] :
        /\ p < q
        /\ ranges[p] = ranges[q]
        /\ attempts[p][i].key = attempts[q][j].key
        /\ attempts[p][i].outcome = "send_failed"
        /\ attempts[q][j].outcome = "ok"
        /\ Len(attempts[p][i].events) = 2

\* C8 (the claim as stated): a failed download does not end the run: no
\* exception propagates and the run attempts every candidate key.
C8_DownloadFailureSkipsFile ==
    \A p \in Procs : \A i \in DOMAIN attempts[p] :
        attempts[p][i].outcome = "download_raised" =>
            /\ ~exc[p]
            /\ pc[p] \in {"done", "failed"} => Len(attempts[p]) = Len(new_files[p])

\* C9 (the claim as stated): no line of a file makes process_log_file raise.
C9_LineNeverAbortsFile ==
    \A p \in Procs : \A i \in DOMAIN attempts[p] :
        attempts[p][i].outcome # "parse_raised"

\* C10 (the claim as stated): a state file that is no valid state document,
\* unparseable or of the wrong shape, gives an empty processed set and the run
\* goes on.
C10_InvalidStateReadAsEmpty ==
    \A p \in Procs :
        loaded[p].kind \in {"junk", "badshape"} =>
            pc[p] # "enter_failed" /\ loaded[p].keys = {}

\* C11: a run whose classifier got no range document (the live fetch failed
\* and the fallback failed or is not configured) ends in its constructor: it
\* lists no file, calls process_log_file for none, sends no event, neither
\* locks nor loads the state file; so every run that got as far as listing
\* holds a loaded range document.
C11_NoRangesNoRun ==
    \A p \in Procs :
        (pc[p] # "idle" /\ ranges[p] \notin DOMAIN RangeDocs) =>
            /\ pc[p] = "construct_failed"
            /\ all_files[p] = <<>>
            /\ attempts[p] = <<>>
            /\ sent[p] = <<>>
            /\ loaded[p].kind = "none"
            /\ lock # p

\* the constructor of one run raised, and the next run emitted events
C11_Witness ==
    \E p, q \in Procs :
        /\ p < q
        /\ pc[p] = "construct_failed" /\ ranges[p] = 0
        /\ pc[q] = "done" /\ sent[q] # <<>>

RECURSIVE Pow2(_)
Pow2(n) == IF n = 0 THEN 1 ELSE 2 * Pow2(n - 1)

\* the numbers a and p, both sequences of groups of w bits, agree on their
\* first n bits
AgreeOn(a, p, n, w) ==
    \A g \in 1..Len(a) :
        LET left == n - (g - 1) * w
            k    == IF left < 0 THEN 0 ELSE IF left > w THEN w ELSE left
        IN  a[g] \div Pow2(w - k) = p[g] \div Pow2(w - k)

\* the octets of an IPv4 address, the groups of an IPv6 address, as numbers
Octets(s) == [i \in 1..4 |-> NatOf(split(s, ".")[i])]

Groups(s) == [i \in 1..8 |-> GroupVal(Addr6Groups(s)[i])]

\* the address lies in the block of addresses the CIDR string denotes
Inside(addr, cidr) ==
    LET parts == split(cidr, "/")
        base  == parts[1]
        n     == NatOf(parts[2])
    IN  \/ AddrOk(addr) /\ AddrOk(base) /\ AgreeOn(Octets(addr), Octets(base), n, 8)
        \/ Addr6Ok(addr) /\ Addr6Ok(base) /\ AgreeOn(Groups(addr), Groups(base), n, 16)

\* the prefixes of the document's entries of the region (same) or of any
\* other region (~same)
PrefixesOf(doc, same) ==
    UNION { {get(doc.prefixes[i], "ip_prefix"), get(doc.prefixes[i], "ipv6_prefix")} \ {""} :
              i \in {j \in DOMAIN doc.prefixes :
                        (get(doc.prefixes[j], "region") = AWS_REGION) = same} }

InSame(c) == \E x \in PrefixesOf(c.ip_data, TRUE) : Inside(c.client_ip, x)

InOther(c) == \E x \in PrefixesOf(c.ip_data, FALSE) : Inside(c.client_ip, x)

\* C12: classify returns EGRESS-REGION exactly for the addresses inside a
\* prefix of the region, EGRESS-INTERREGION exactly for those inside no prefix
\* of the region but inside one of another region, and EGRESS-INTERNET for
\* all others; an address inside prefixes of both is EGRESS-REGION.
C12_ClassifyTiers ==
    (call.fn = "classify" /\ ret.returned) =>
        /\ ret.value = EgressSKU.REGION <=> InSame(call)
        /\ ret.value = EgressSKU.INTERREGION <=> (~InSame(call) /\ InOther(call))
        /\ ret.value = EgressSKU.INTERNET <=> (~InSame(call) /\ ~InOther(call))

\* an IPv6 address inside prefixes of both partitions was classified
C12_Witness ==
    /\ call.fn = "classify" /\ ret.returned
    /\ Addr6Ok(call.client_ip)
    /\ InSame(call) /\ InOther(call)
    /\ ret.value = EgressSKU.REGION

\* the records process_log_line gives for the lines of the content of a call
RecordsOf(c) ==
    LET lines == splitlines(c.content)
    IN  [n \in DOMAIN lines |->
            process_log_line(build_trees(c.ip_data, AWS_REGION), lines[n], c.key)]

\* the lines of the call that belong to the group of event e
MembersOf(c, e) ==
    {n \in DOMAIN RecordsOf(c) :
        /\ RecordsOf(c)[n].ok
        /\ RecordsOf(c)[n].workspace = e.workspace
        /\ RecordsOf(c)[n].sku = e.sku}

RECURSIVE SumBytes(_, _)
SumBytes(records, members) ==
    IF members = {} THEN 0
    ELSE LET n == CHOOSE m \in members : TRUE
         IN  records[n].data_size + SumBytes(records, members \ {n})

\* the instant of a timestamp "YYYY-MM-DDTHH:MM:SSZ" as <<day, second of day>>
InstantOf(t) ==
    << (NatOf(SubSeq(t, 1, 4)) * 12 + NatOf(SubSeq(t, 6, 7))) * 31 + NatOf(SubSeq(t, 9, 10)),
       (NatOf(SubSeq(t, 12, 13)) * 60 + NatOf(SubSeq(t, 15, 16))) * 60 + NatOf(SubSeq(t, 18, 19)) >>

Earlier(t, u) ==
    \/ InstantOf(t)[1] < InstantOf(u)[1]
    \/ InstantOf(t)[1] = InstantOf(u)[1] /\ InstantOf(t)[2] < InstantOf(u)[2]

\* C13: each event process_log_file sends for a file of valid lines carries
\* the sum of the byte counts of the lines of its (file, workspace, tier)
\* group, the timestamp of the earliest of them as event_start and of the
\* latest as event_end.
C13_AggregateSumMinMax ==
    (call.fn = "process_log_file" /\ ret.returned) =>
        /\ ret.value
        /\ \A i \in DOMAIN ret.events :
              LET e       == ret.events[i]
                  members == MembersOf(call, e)
                  records == RecordsOf(call)
              IN  /\ members # {}
                  /\ e.quantity = SumBytes(records, members)
                  /\ \E n \in members :
                        /\ e.event_start = records[n].timestamp
                        /\ \A m \in members : ~Earlier(records[m].timestamp, e.event_start)
                  /\ \E n \in members :
                        /\ e.event_end = records[n].timestamp
                        /\ \A m \in members : ~Earlier(e.event_end, records[m].timestamp)

\* three lines of one group, the earliest of them in the middle and the
\* latest first, were aggregated
C13_Witness ==
    /\ call.fn = "process_log_file" /\ ret.returned
    /\ Len(ret.events) = 1
    /\ Cardinality(MembersOf(call, ret.events[1])) = 3
    /\ ret.events[1].event_start = RecordsOf(call)[2].timestamp
    /\ ret.events[1].event_end = RecordsOf(call)[1].timestamp
    /\ ret.events[1].event_start # ret.events[1].event_end

\* the (workspace, tier) pairs of the valid lines of a content
PairsOf(trees, content, key) ==
    LET lines == splitlines(content)
    IN  { <<process_log_line(trees, lines[n], key).workspace,
            process_log_line(trees, lines[n], key).sku>> :
              n \in {m \in DOMAIN lines : process_log_line(trees, lines[m], key).ok} }

\* PairsOf, tabulated for every classifier, key and content of the model
PairsTable ==
    [d \in DOMAIN RangeDocs |->
        [k \in BucketKeys |-> [c \in Contents |-> PairsOf(TreesOf[d], c, k)]]]

\* C14: when process_log_file returned True for a file, the events it sent
\* are one for each distinct (workspace, tier) pair among the file's valid
\* lines: as many events as pairs, and one event of each pair.
C14_OneEventPerPair ==
    \A p \in Procs : \A i \in DOMAIN attempts[p] :
        attempts[p][i].outcome = "ok" =>
            LET k     == attempts[p][i].key
                pairs == PairsTable[ranges[p]][k][bucket[k]]
            IN  /\ Cardinality(SentOf(p, k)) = Cardinality(pairs)
                /\ \A pr \in pairs :
                      Cardinality({s \in SentOf(p, k) :
                                      /\ sent[p][s].event.workspace = pr[1]
                                      /\ sent[p][s].event.sku = pr[2]}) = 1

\* process_log_file returned True for a file whose valid lines, three of
\* them, make two pairs
C14_Witness ==
    \E p \in Procs : \E i \in DOMAIN attempts[p] :
        /\ attempts[p][i].outcome = "ok"
        /\ bucket[attempts[p][i].key] = ContentTwoGroups
        /\ Cardinality(PairsTable[ranges[p]][attempts[p][i].key][ContentTwoGroups]) = 2
        /\ Cardinality(SentOf(p, attempts[p][i].key)) = 2

\* C15: a key that was in the processed set a run loaded from the state file
\* is not among the run's new files, process_log_file is never called for it
\* (no download, no mark) and no event of it is sent in that run, also when
\* the listing of the run returned the key.
C15_LoadedKeysNeverReprocessed ==
    \A p \in Procs : \A k \in loaded[p].keys :
        /\ \A n \in DOMAIN new_files[p] : new_files[p][n] # k
        /\ \A i \in DOMAIN attempts[p] : attempts[p][i].key # k
        /\ SentOf(p, k) = {}

\* the listing of a run returned a key that the state it then loaded held,
\* and the run processed another file and ended
C15_Witness ==
    \E p \in Procs : \E k \in loaded[p].keys :
        /\ \E n \in DOMAIN all_files[p] : all_files[p][n] = k
        /\ \E j \in DOMAIN attempts[p] : attempts[p][j].outcome = "ok"
        /\ pc[p] = "done"

\* the calls of process_log_file in run p for a file with content and no group
ZeroGroupAttempts(p) ==
    {i \in DOMAIN attempts[p] :
        /\ attempts[p][i].outcome = "ok"
        /\ attempts[p][i].events = <<>>
        /\ bucket[attempts[p][i].key] # ""}

\* C16 (the claim as stated): a file with content and no valid group sends no
\* event and is marked, and the run that met it ends only after it has
\* attempted the last of its candidate keys.
C16_ZeroGroupFileRunAttemptsAll ==
    \A p \in Procs : \A i \in ZeroGroupAttempts(p) :
        /\ SentOf(p, attempts[p][i].key) = {}
        /\ attempts[p][i].key \in processed[p]
        /\ pc[p] \in {"done", "failed"} => Len(attempts[p]) = Len(new_files[p])

\* the host header of a line: its 18th field, "" when it has fewer
HostOf(line) ==
    IF Len(split(line, "\t")) >= 18 THEN split(line, "\t")[18] ELSE ""

\* s ends with suffix
HasSuffix(s, suffix) == \E i \in 0..Len(s) : SubSeq(s, i + 1, Len(s)) = suffix

\* the part of the host before the workspace domain, where the host ends with it
BeforeDomain(host) == SubSeq(host, 1, Len(host) - Len(expected_domain))

\* the label that ends s, where s ends with "."
LastLabel(s) ==
    LET labels == split(s, ".")
    IN  labels[Len(labels) - 1]

\* C17 (the claim as stated): a record produced for a host header that ends
\* with the workspace domain has the domain start at a label boundary, and
\* its workspace is the label right before the domain, also when the host has
\* further labels before that one.
C17_WorkspaceIsLabelBeforeDomain ==
    (call.fn = "process_log_line" /\ ret.returned /\ ret.value.ok
       /\ HasSuffix(HostOf(call.line), expected_domain)) =>
        LET before == BeforeDomain(HostOf(call.line))
        IN  /\ HasSuffix(before, ".")
            /\ ret.value.workspace = LastLabel(before)

\* the line adds nothing to the aggregation of a file, alone or after a valid line
AddsNothing(c) ==
    LET trees == build_trees(c.ip_data, AWS_REGION)
    IN  /\ Aggregate(trees, JoinLines(<<c.line>>), c.log_filename).aggregation = <<>>
        /\ Aggregate(trees, JoinLines(<<TestLine, c.line>>), c.log_filename)
              = Aggregate(trees, JoinLines(<<TestLine>>), c.log_filename)
        /\ Aggregate(trees, JoinLines(<<c.line, TestLine>>), c.log_filename)
              = Aggregate(trees, JoinLines(<<TestLine>>), c.log_filename)

\* C18: a line whose host header does not end with the workspace domain, or
\* that has fewer than 18 fields and so no host header, gives no record and
\* changes no aggregate group of a file it is in.
C18_ForeignHostNoRecord ==
    (call.fn = "process_log_line" /\ ret.returned
       /\ (Len(split(call.line, "\t")) < 18 \/ ~HasSuffix(HostOf(call.line), expected_domain))) =>
        /\ ~ret.value.ok
        /\ AddsNothing(call)

\* a line of 18 fields, valid but for a host that holds the workspace domain
\* without ending with it, gave no record
C18_Witness ==
    /\ call.fn = "process_log_line" /\ ret.returned
    /\ call.line = LogLine("2025-04-07", "13:38:48", "100", "10.1.2.3",
                           "workspace1.eodatahub-workspaces.org.uk.evil.com")
    /\ ~ret.value.ok

\* s holds spaces and tabs only
OnlySpace(s) == \A i \in 1..Len(s) : SubSeq(s, i, i) \in {" ", "\t"}

\* C19: process_log_line gives no record for a blank line and for a line
\* whose first character is "#", whatever follows it, and such a line
\* changes no aggregate group of a file it is in.
C19_BlankAndCommentNoRecord ==
    (call.fn = "process_log_line" /\ ret.returned
       /\ (OnlySpace(call.line) \/ SubSeq(call.line, 1, 1) = "#")) =>
        /\ ~ret.value.ok
        /\ AddsNothing(call)

\* a comment marker followed by an otherwise valid line gave no record
C19_Witness ==
    /\ call.fn = "process_log_line" /\ ret.returned
    /\ call.line = "#" \o TestLine
    /\ ~ret.value.ok

\* the service tag of the provider's own network
OwnService == "AMAZON"

\* entries tagged with another service, of the region and of another region
OtherServiceEntries ==
    { [service |-> "EC2", region |-> "eu-west-2", ip_prefix |-> "8.8.8.0/24"],
      [service |-> "S3", region |-> "us-east-1", ip_prefix |-> "10.0.0.0/8"],
      [service |-> "CLOUDFRONT", region |-> "GLOBAL", ipv6_prefix |-> "2001:db9::/32"] }

\* the document with one more entry, and with its entry i removed
WithEntry(doc, e) == [prefixes |-> Append(doc.prefixes, e)]

WithoutEntry(doc, i) ==
    [prefixes |-> SubSeq(doc.prefixes, 1, i - 1)
                      \o SubSeq(doc.prefixes, i + 1, Len(doc.prefixes))]

\* the result of classify for the address on a classifier built from the document
Classified(doc, client_ip) == classify(build_trees(doc, AWS_REGION), client_ip)

\* C20 (the claim as stated): adding an entry of a service other than AMAZON
\* to the range document, or removing one, changes the result of classify for
\* no address.
C20_OtherServicesIgnored ==
    (call.fn = "classify" /\ ret.returned) =>
        /\ \A e \in OtherServiceEntries :
              Classified(WithEntry(call.ip_data, e), call.client_ip) = ret.value
        /\ \A i \in DOMAIN call.ip_data.prefixes :
              get(call.ip_data.prefixes[i], "service") # OwnService =>
                  Classified(WithoutEntry(call.ip_data, i), call.client_ip) = ret.value

\* C21: when an exception left the loop over the files of a run, the state
\* file holds, once the exception has reached the caller of run, every key
\* the run loaded at entry and every key it marked, and the run no longer
\* holds the lock.
C21_ExitWritesStateOnException ==
    \A p \in Procs :
        (pc[p] = "failed" /\ \A q \in Procs : q > p => pc[q] = "idle") =>
            /\ exc[p]
            /\ loaded[p].keys \subseteq PersistedKeys(file)
            /\ Marked(p) \subseteq PersistedKeys(file)
            /\ lock # p

\* an exception left the loop of a run that had marked a file before, and
\* reached the caller
C21_Witness ==
    \E p \in Procs :
        /\ pc[p] = "failed"
        /\ \A q \in Procs : q > p => pc[q] = "idle"
        /\ Marked(p) # {}
        /\ \E i \in DOMAIN attempts[p] :
              attempts[p][i].outcome \in {"download_raised", "parse_raised"}

\* a is b or sorts before it
StrLessEq(a, b) == a = b \/ StrLess(a, b)

\* some run sent every event of a call of process_log_file(k) that returned True
FullyEmitted(k) ==
    \E p \in Procs : \E i \in OkAttempts(p, k) :
        \A j \in DOMAIN attempts[p][i].events :
            \E s \in SentOf(p, k) : sent[p][s].event = attempts[p][i].events[j]

\* the watermark is empty or a fully emitted key, and the state file holds
\* every key a completed run loaded
WatermarkEmittedAndLoadedKept ==
    /\ get_start_after_key(file) # "" => FullyEmitted(get_start_after_key(file))
    /\ \A p \in Procs :
          (pc[p] = "done" /\ \A q \in Procs : q > p => pc[q] = "idle") =>
              loaded[p].keys \subseteq PersistedKeys(file)

FoldedInto(records, g, n) ==
    {m \in 1..n : records[m].ok /\ records[m].aggregation_key = g.key}

\* group g spans the timestamps of these records: earliest is not after
\* latest, and no timestamp is before earliest or after latest
Spans(g, records, members) ==
    /\ ~Earlier(isoformat(g.latest), isoformat(g.earliest))
    /\ \A m \in members :
          /\ ~Earlier(records[m].timestamp, isoformat(g.earliest))
          /\ ~Earlier(isoformat(g.latest), records[m].timestamp)

\* C23: after each line of a file that process_log_file folds, every record
\* folded so far has a group, and each group's earliest is not after its
\* latest and every timestamp folded into the group so far lies between them.
C23_EarliestLatestAtEveryFold ==
    (call.fn = "process_log_file" /\ ret.returned) =>
        \A records \in {RecordsOf(call)} :
        \A n \in DOMAIN ret.folds :
            ~ret.folds[n].raised =>
                /\ \A m \in 1..n :
                      records[m].ok =>
                          \E i \in DOMAIN ret.folds[n].aggregation :
                              ret.folds[n].aggregation[i].key = records[m].aggregation_key
                /\ \A i \in DOMAIN ret.folds[n].aggregation :
                      \A members \in {FoldedInto(records, ret.folds[n].aggregation[i], n)} :
                          /\ members # {}
                          /\ Spans(ret.folds[n].aggregation[i], records, members)

\* a file whose second line is earlier than its first and whose third is
\* later than both, all of one group, was folded
C23_Witness ==
    /\ call.fn = "process_log_file" /\ ret.returned /\ ~ret.raised
    /\ call.content = JoinLines(<<LogLine("2025-04-07", "13:39:00", "200", "10.1.2.3", Ws1Host),
                                  LogLine("2025-04-07", "13:38:48", "398", "10.1.2.3", Ws1Host),
                                  LogLine("2025-12-01", "00:00:00", "0", "10.1.2.3", Ws1Host)>>)
    /\ Len(ret.folds) = 3
    /\ Len(ret.folds[3].aggregation) = 1

\* C24 (the claim as stated): for two runs of the scanner of app.py that
\* overlapped in time, the state file holds, after both have saved, every key
\* either run marked, and neither run read a state file that did not parse
\* while the other was between the open and the close of its save.
C24_AppOverlapLosesNoKey ==
    \A p, q \in Procs :
        (p # q /\ {p, q} \in overlapped) =>
            /\ (pc[p] = "done" /\ pc[q] = "done") =>
                   Marked(p) \cup Marked(q) \subseteq PersistedKeys(file)
            /\ (loaded[p].kind = "junk" /\ pc[p] # "idle") => q \notin loaded[p].saving

\* C25 (the claim as stated): a run of the scanner of app.py adds a key to
\* processed_files only if publish_event succeeded for every event of that
\* file; a file for which a publish_event failed stays unmarked.
C25_AppMarkedOnlyIfAllPublished ==
    \A p \in Procs : \A i \in DOMAIN attempts[p] :
        /\ attempts[p][i].failed > 0 => attempts[p][i].key \notin processed[p]
        /\ attempts[p][i].key \in Marked(p) =>
              \A j \in DOMAIN attempts[p][i].events :
                  \E s \in SentOf(p, attempts[p][i].key) :
                      sent[p][s].event = attempts[p][i].events[j]

\* the (file key, workspace, tier) triple of the record of a call of process_log_line
TripleOf(c, record) == <<c.log_filename, record.workspace, record.sku>>

\* the record process_log_line gives for a call
RecordOf(c) == process_log_line(build_trees(c.ip_data, AWS_REGION), c.line, c.log_filename)

\* C26 (the claim as stated): the record of a line and the record of any
\* other line, of the same file or of another, whose (file key, workspace,
\* tier) triples differ have different composite keys and different uuids.
C26_DistinctGroupsDistinctIds ==
    (call.fn = "process_log_line" /\ ret.returned /\ ret.value.ok) =>
        \A c \in LineCalls \cup KeyCalls :
            (RecordOf(c).ok /\ TripleOf(c, RecordOf(c)) # TripleOf(call, ret.value)) =>
                /\ RecordOf(c).aggregation_key # ret.value.aggregation_key
                /\ RecordOf(c).uuid # ret.value.uuid

=============================================================================
